---- MODULE Spec2Model ----
(***************************************************************************)
(* A model of tensorlayer/layers/core.py: the Layer base class, ModelLayer *)
(* and LayerList, with the process-wide name counter.  Layer objects live  *)
(* in a heap (a sequence of records, a layer's id is its position); the    *)
(* methods are operators from a world (heap + wrapped models) to a world.  *)
(***************************************************************************)
EXTENDS Integers, Sequences, FiniteSets, TLC

VARIABLES
    heap,        \* the Layer objects created so far, in creation order
    models,      \* the wrapped Model objects (collaborators of ModelLayer)
    name_dict,   \* _global_layer_name_dict
    last         \* the last operation performed and how it ended

vars == <<heap, models, name_dict, last>>

----------------------------------------------------------------------------
(* Bounds of the model *)

MaxLayers == 3       \* Layer objects created in one run of Spec
MaxLayersRelease == 2 \* ... of SpecRelease
MaxLayersMode == 4   \* ... of SpecMode
MaxLayersNames == 4  \* ... of SpecNames
MaxLayersIndex == 5  \* ... of SpecIndex
MaxLayersOps == 2    \* ... of SpecOps
MaxLayersModel == 2  \* ... of SpecModel
MaxLayersCounter == 2 \* ... of SpecCounter
MaxModelWeights == 3 \* weights the wrapped model comes to hold
MaxMembers == 2      \* members of a LayerList given to the constructor
MaxMembersIndex == 3 \* ... in SpecIndex
MaxUpstream == 1     \* upstream layers in a multi-input invocation
DimMod == 3          \* tensor dimensions are kept modulo DimMod

----------------------------------------------------------------------------
(* Values *)

None == [tag |-> "None"]
Tensor(s) == [tag |-> "Tensor", shape |-> s]
ListOf(items) == [tag |-> "list", items |-> items]
LayerRef(l) == [tag |-> "Layer", id |-> l]
Str(s) == [tag |-> "str", s |-> s]

\* The concrete layer classes the model instantiates.  Input is the class
\* listed in tl.layers.inputs.__all__; Dense owns one parameter created in
\* build; Concat is a multi-input layer whose build does nothing.
LayerClasses == {"Input", "Dense", "Concat"}
InputClasses == {"Input"}
Models == {"m1"}

\* str.lower() on the class names that occur
Lower(cls) ==
    CASE cls = "Input" -> "input"
      [] cls = "Dense" -> "dense"
      [] cls = "Concat" -> "concat"
      [] cls = "ModelLayer" -> "modellayer"
      [] cls = "LayerList" -> "layerlist"

\* number of _get_weights calls made by the class's build
NParams(cls) == IF cls = "Dense" THEN 1 ELSE 0

\* A tensor is known by its shape; the dimension of a joined tensor is
\* kept modulo DimMod.
RECURSIVE Combine(_), SumDims(_)
SumDims(items) ==
    IF items = <<>> THEN 0
    ELSE LET t == Combine(Head(items))
         IN (IF t.shape = <<>> THEN 0 ELSE t.shape[1]) + SumDims(Tail(items))

\* a list of tensors (or of lists of them) joined into one tensor; a
\* single tensor as it is
Combine(x) ==
    IF x.tag = "list" THEN Tensor(<<SumDims(x.items) % DimMod>>) ELSE x

\* t.get_shape().as_list(), for a tensor or a list of tensors
ShapeOf(x) ==
    IF x.tag = "list"
    THEN ListOf([i \in 1..Len(x.items) |-> Combine(x.items[i]).shape])
    ELSE [tag |-> "shape", dims |-> x.shape]

----------------------------------------------------------------------------
(* Layer.__init__ *)

\* a variant of the auto-naming step that names the layer after the count
\* it found, not after the count it stores
AutoName_StaleCount(d, prefix) ==
    IF prefix \in DOMAIN d
    THEN [dict |-> [p \in DOMAIN d |-> IF p = prefix THEN d[p] + 1 ELSE d[p]],
          name |-> prefix \o "_" \o ToString(d[prefix])]
    ELSE [dict |-> [p \in DOMAIN d \cup {prefix} |->
                        IF p = prefix THEN 0 ELSE d[p]],
          name |-> prefix]

\* the auto-naming step: the new counter and the name
AutoName(d, prefix) ==
    IF prefix \in DOMAIN d
    THEN LET n == d[prefix] + 1
         IN [dict |-> [p \in DOMAIN d |-> IF p = prefix THEN n ELSE d[p]],
             name |-> prefix \o "_" \o ToString(n)]
    ELSE [dict |-> [p \in DOMAIN d \cup {prefix} |->
                        IF p = prefix THEN 0 ELSE d[p]],
          name |-> prefix]

\* a variant that enters an explicit name in the counter as well
NameFor_CountsExplicit(d, cls, name) ==
    IF name = None THEN AutoName(d, Lower(cls))
    ELSE [dict |-> AutoName(d, name.s).dict, name |-> name.s]

\* name is None or Str(s); returns the counter and the layer's name
NameFor(d, cls, name) ==
    IF name = None THEN AutoName(d, Lower(cls))
    ELSE [dict |-> d, name |-> name.s]

\* the fields a fresh Layer object holds after Layer.__init__
LayerInit(cls, name) ==
    [cls |-> cls,
     name |-> name,
     inputs |-> None,
     outputs |-> None,
     inputs_shape_mem |-> None,
     outputs_shape_mem |-> None,
     input_layer |-> None,
     built |-> FALSE,
     weights |-> None,
     is_train |-> TRUE,
     layers |-> <<>>,        \* LayerList.layers
     model |-> "",           \* ModelLayer.model
     auto |-> FALSE,         \* history: the name was assigned automatically
     called |-> FALSE,       \* history: __call__ has run a branch on it
     has_built |-> FALSE,    \* history: build has been executed on it
     nbuild |-> 0,           \* executions of build in the last operation
     nforward |-> 0,         \* executions of forward in the last operation
     fwd_unbuilt |-> FALSE]  \* ... one of them before any build of the layer

IntV(k) == [tag |-> "int", v |-> k]
Ok(W) == [W |-> W, err |-> "ok"]
Raise(W, e) == [W |-> W, err |-> e]

----------------------------------------------------------------------------
(* Layer: properties and the weight-acquisition primitive *)

\* a variant of Layer._inputs_shape that forgets the cached shape when
\* inputs is None
InputsShape_NoMemo(W, l) ==
    [W EXCEPT !.heap[l].inputs_shape_mem =
        IF W.heap[l].inputs # None THEN ShapeOf(W.heap[l].inputs) ELSE None]

\* Layer._inputs_shape: caches the shape while inputs is live; the value
\* the property returns is inputs_shape_mem of the world it leaves
InputsShape(W, l) ==
    IF W.heap[l].inputs # None
    THEN [W EXCEPT !.heap[l].inputs_shape_mem = ShapeOf(W.heap[l].inputs)]
    ELSE W

\* Layer._outputs_shape
OutputsShape(W, l) ==
    IF W.heap[l].outputs # None
    THEN [W EXCEPT !.heap[l].outputs_shape_mem = ShapeOf(W.heap[l].outputs)]
    ELSE W

\* Layer.weights: _weights, which for a ModelLayer is the model's own list
Weights(W, l) ==
    LET w == W.heap[l].weights
    IN IF w.tag = "ref" THEN W.models[w.model].weights ELSE w

\* Layer._get_weights: a new variable, appended to the layer's weights
GetWeights(W, l, var_name) ==
    LET self == W.heap[l]
        old == IF Weights(W, l) = None THEN <<>> ELSE Weights(W, l).items
        weight == [scope |-> self.name, var |-> var_name,
                   layer |-> l, k |-> Len(old) + 1]
    IN IF self.weights.tag = "ref"
       THEN [W EXCEPT !.models[self.weights.model].weights =
                          ListOf(Append(old, weight))]
       ELSE [W EXCEPT !.heap[l].weights = ListOf(Append(old, weight))]

\* build of a concrete class: n calls of _get_weights
RECURSIVE ClassBuild(_, _, _)
ClassBuild(W, l, n) ==
    IF n = 0 THEN W ELSE GetWeights(ClassBuild(W, l, n - 1), l, "W")

\* forward of a concrete class on a tensor or a list of tensors
ClassForward(cls, x) ==
    IF cls = "Dense" THEN Tensor(<<1>>) ELSE Combine(x)

\* the wrapped model's forward
ModelForward(x) == Tensor(<<1>>)

\* tf.convert_to_tensor on raw data or a Python number
ConvertToTensor(arg) ==
    IF arg.tag = "raw" THEN Tensor(arg.shape) ELSE Tensor(<<>>)

\* a variant of the extension that puts the new items in front
Extend_Prepends(w, ws) ==
    ListOf(ws.items \o (IF w = None THEN <<>> ELSE w.items))

\* self._weights.extend(ws), creating the list first when it is None
Extend(w, ws) ==
    ListOf((IF w = None THEN <<>> ELSE w.items) \o ws.items)

----------------------------------------------------------------------------
(* Layer.__call__, with the build and forward it dispatches to *)

RECURSIVE Call(_, _, _), Build(_, _), ListBuild(_, _, _, _),
          Forward(_, _, _), ListForward(_, _, _, _),
          ListBuild_NoThread(_, _, _, _), CallSingle_AlwaysBuilds(_, _, _),
          CallSingle_BuildOrForward(_, _, _)

\* LayerList.forward from member i on
ListForward(W, l, i, z) ==
    IF i > Len(W.heap[l].layers) THEN [W |-> W, out |-> z]
    ELSE LET f == Forward(W, W.heap[l].layers[i], z)
         IN ListForward(f.W, l, i + 1, f.out)

\* self.forward(inputs): the world (history counters, the wrapped model)
\* and the result
Forward(W, l, x) ==
    LET self == W.heap[l]
        W0 == [W EXCEPT !.heap[l].nforward = @ + 1,
                        !.heap[l].fwd_unbuilt = @ \/ ~self.has_built]
    IN CASE self.cls = "LayerList" -> ListForward(W0, l, 1, x)
         [] self.cls = "ModelLayer" ->
                [W |-> [W0 EXCEPT !.models[self.model].live = TRUE],
                 out |-> ModelForward(x)]
         [] OTHER -> [W |-> W0, out |-> ClassForward(self.cls, x)]

\* a variant of the loop that gives every member the list's own input layer
ListBuild_NoThread(W, l, i, in_layer) ==
    IF i > Len(W.heap[l].layers) THEN Ok(W)
    ELSE LET layer == W.heap[l].layers[i]
             is_build == W.heap[layer].built
             r == Call(W, layer, in_layer)
         IN IF r.err # "ok" THEN r
            ELSE LET ws == Weights(r.W, layer)
                     W1 == IF ~is_build /\ ws # None
                           THEN [r.W EXCEPT !.heap[l].weights =
                                     Extend(r.W.heap[l].weights, ws)]
                           ELSE r.W
                     W2 == [W1 EXCEPT !.heap[layer].built = TRUE]
                 IN ListBuild_NoThread(W2, l, i + 1, in_layer)

\* the loop of LayerList.build from member i on, in_layer the current input
ListBuild(W, l, i, in_layer) ==
    IF i > Len(W.heap[l].layers) THEN Ok(W)
    ELSE LET layer == W.heap[l].layers[i]
             is_build == W.heap[layer].built
             r == Call(W, layer, in_layer)
         IN IF r.err # "ok" THEN r
            ELSE LET ws == Weights(r.W, layer)
                     W1 == IF ~is_build /\ ws # None
                           THEN [r.W EXCEPT !.heap[l].weights =
                                     Extend(r.W.heap[l].weights, ws)]
                           ELSE r.W
                     W2 == [W1 EXCEPT !.heap[layer].built = TRUE]
                 IN ListBuild(W2, l, i + 1, LayerRef(layer))

\* self.build(inputs_shape)
Build(W, l) ==
    LET self == W.heap[l]
        W0 == [W EXCEPT !.heap[l].nbuild = @ + 1,
                        !.heap[l].has_built = TRUE]
    IN CASE self.cls = "LayerList" -> ListBuild(W0, l, 1, self.input_layer)
         [] self.cls = "ModelLayer" -> Ok(W0)
         [] OTHER -> Ok(ClassBuild(W0, l, NParams(self.cls)))

\* self.outputs = self.forward(self.inputs)
SetOutputs(W, l) ==
    LET f == Forward(W, l, W.heap[l].inputs)
    IN Ok([f.W EXCEPT !.heap[l].outputs = f.out])

\* branch 1 of __call__: input layers
CallInput(W, l, arg) ==
    IF arg.tag \notin {"raw", "int"} THEN Raise(W, "TypeError")
    ELSE LET W1 == [W EXCEPT !.heap[l].inputs = ConvertToTensor(arg),
                             !.heap[l].input_layer = None,
                             !.heap[l].built = TRUE,
                             !.heap[l].called = TRUE]
             b == Build(InputsShape(W1, l), l)
         IN IF b.err # "ok" THEN b ELSE SetOutputs(b.W, l)

\* a variant of branch 2 that builds whether or not the layer is built
CallSingle_AlwaysBuilds(W, l, arg) ==
    LET W1 == [W EXCEPT !.heap[l].inputs = W.heap[arg.id].outputs,
                        !.heap[l].input_layer = arg,
                        !.heap[l].called = TRUE]
        r == Build(InputsShape(W1, l), l)
    IN IF r.err # "ok" THEN r
       ELSE SetOutputs([r.W EXCEPT !.heap[l].built = TRUE], l)

\* a variant of branch 2 that forwards only when it has not built
CallSingle_BuildOrForward(W, l, arg) ==
    LET W1 == [W EXCEPT !.heap[l].inputs = W.heap[arg.id].outputs,
                        !.heap[l].input_layer = arg,
                        !.heap[l].called = TRUE]
    IN IF ~W1.heap[l].built
       THEN LET r == Build(InputsShape(W1, l), l)
            IN IF r.err # "ok" THEN r
               ELSE Ok([r.W EXCEPT !.heap[l].built = TRUE])
       ELSE SetOutputs(W1, l)

\* branch 2 of __call__: one upstream layer
CallSingle(W, l, arg) ==
    LET W1 == [W EXCEPT !.heap[l].inputs = W.heap[arg.id].outputs,
                        !.heap[l].input_layer = arg,
                        !.heap[l].called = TRUE]
        b == IF ~W1.heap[l].built
             THEN LET r == Build(InputsShape(W1, l), l)
                  IN IF r.err # "ok" THEN r
                     ELSE Ok([r.W EXCEPT !.heap[l].built = TRUE])
             ELSE Ok(W1)
    IN IF b.err # "ok" THEN b ELSE SetOutputs(b.W, l)

\* branch 3 of __call__: a list of upstream layers
CallMulti(W, l, arg) ==
    LET W1 == [W EXCEPT !.heap[l].inputs =
                            ListOf([i \in 1..Len(arg.items) |->
                                        W.heap[arg.items[i]].outputs]),
                        !.heap[l].input_layer = arg,
                        !.heap[l].built = TRUE,
                        !.heap[l].called = TRUE]
    IN SetOutputs(W1, l)

\* a variant of the else branch that marks the layer built before it raises
CallInvalid_MarksBuilt(W, l, arg) ==
    Raise([W EXCEPT !.heap[l].built = TRUE], "AssertionError")

\* the else branch of __call__
CallInvalid(W, l, arg) == Raise(W, "AssertionError")

Call(W, l, arg) ==
    IF W.heap[l].cls \in InputClasses THEN CallInput(W, l, arg)
    ELSE IF arg.tag = "Layer" THEN CallSingle(W, l, arg)
    ELSE IF arg.tag = "list" THEN CallMulti(W, l, arg)
    ELSE CallInvalid(W, l, arg)

----------------------------------------------------------------------------
(* _release_memory and _set_mode_for_layers *)

\* a variant of Layer._release_memory that drops the tensors without
\* reading the shape properties first
BaseRelease_NoCache(W, l) ==
    [W EXCEPT !.heap[l].inputs = None, !.heap[l].outputs = None]

\* a variant of Layer._release_memory that also returns the layer to the
\* unbuilt state
BaseRelease_Unbuilds(W, l) ==
    LET W1 == OutputsShape(InputsShape(W, l), l)
    IN [W1 EXCEPT !.heap[l].inputs = None, !.heap[l].outputs = None,
                  !.heap[l].built = FALSE]

\* Layer._release_memory
BaseRelease(W, l) ==
    LET W1 == OutputsShape(InputsShape(W, l), l)
    IN [W1 EXCEPT !.heap[l].inputs = None, !.heap[l].outputs = None]

RECURSIVE ReleaseMemory(_, _), ReleaseMembers(_, _, _),
          ReleaseMembers_Shallow(_, _, _)

\* a variant of the loop that gives a member LayerList the base release only
ReleaseMembers_Shallow(W, l, i) ==
    IF i > Len(W.heap[l].layers) THEN W
    ELSE LET layer == W.heap[l].layers[i]
             W1 == IF W.heap[layer].cls = "LayerList"
                   THEN BaseRelease(W, layer)
                   ELSE ReleaseMemory(W, layer)
         IN ReleaseMembers_Shallow(W1, l, i + 1)

\* the loop of LayerList._release_memory from member i on
ReleaseMembers(W, l, i) ==
    IF i > Len(W.heap[l].layers) THEN W
    ELSE ReleaseMembers(ReleaseMemory(W, W.heap[l].layers[i]), l, i + 1)

\* layer._release_memory(), by the class of the layer
ReleaseMemory(W, l) ==
    LET self == W.heap[l]
    IN CASE self.cls = "ModelLayer" ->
                [BaseRelease(W, l) EXCEPT !.models[self.model].live = FALSE]
         [] self.cls = "LayerList" -> ReleaseMembers(BaseRelease(W, l), l, 1)
         [] OTHER -> BaseRelease(W, l)

\* ModelLayer._set_mode_for_layers
ModelLayerSetMode(W, l, is_train) ==
    [W EXCEPT !.heap[l].is_train = is_train,
              !.models[W.heap[l].model].is_train = is_train]

\* a variant of the loop without the LayerList case: a nested list only
\* has its own flag set
RECURSIVE SetModeMembers_Flat(_, _, _, _)
SetModeMembers_Flat(W, l, i, is_train) ==
    IF i > Len(W.heap[l].layers) THEN W
    ELSE LET layer == W.heap[l].layers[i]
             W1 == IF W.heap[layer].cls = "ModelLayer"
                   THEN ModelLayerSetMode(W, layer, is_train)
                   ELSE [W EXCEPT !.heap[layer].is_train = is_train]
         IN SetModeMembers_Flat(W1, l, i + 1, is_train)

RECURSIVE ListSetMode(_, _, _), SetModeMembers(_, _, _, _)

\* the loop of LayerList._set_mode_for_layers from member i on
SetModeMembers(W, l, i, is_train) ==
    IF i > Len(W.heap[l].layers) THEN W
    ELSE LET layer == W.heap[l].layers[i]
             W1 == CASE W.heap[layer].cls = "ModelLayer" ->
                            ModelLayerSetMode(W, layer, is_train)
                      [] W.heap[layer].cls = "LayerList" ->
                            ListSetMode(W, layer, is_train)
                      [] OTHER ->
                            [W EXCEPT !.heap[layer].is_train = is_train]
         IN SetModeMembers(W1, l, i + 1, is_train)

\* LayerList._set_mode_for_layers
ListSetMode(W, l, is_train) ==
    SetModeMembers([W EXCEPT !.heap[l].is_train = is_train], l, 1, is_train)

\* layer._set_mode_for_layers(is_train), by the class of the layer
SetModeForLayers(W, l, is_train) ==
    CASE W.heap[l].cls = "ModelLayer" -> ModelLayerSetMode(W, l, is_train)
      [] W.heap[l].cls = "LayerList" -> ListSetMode(W, l, is_train)
      [] OTHER -> [W EXCEPT !.heap[l].is_train = is_train]

----------------------------------------------------------------------------
(* ModelLayer.__init__, LayerList.__init__, __getitem__, __len__ *)

\* model.inputs.outputs: the output of the wrapped model's input node
ModelInputOutputs == Tensor(<<2>>)

\* a variant of ModelLayer.__init__ that keeps a copy of the model's weights
ModelLayerInit_Copies(W, m) ==
    [LayerInit("ModelLayer", W.models[m].name \o "_layer") EXCEPT
        !.model = m,
        !.inputs = ModelInputOutputs,
        !.outputs = ModelForward(ModelInputOutputs),
        !.input_layer = [tag |-> "ModelInput", model |-> m],
        !.built = TRUE,
        !.weights = W.models[m].weights,
        !.is_train = TRUE]

\* the ModelLayer object ModelLayer(model) constructs
ModelLayerInit(W, m) ==
    [LayerInit("ModelLayer", W.models[m].name \o "_layer") EXCEPT
        !.model = m,
        !.inputs = ModelInputOutputs,
        !.outputs = ModelForward(ModelInputOutputs),
        !.input_layer = [tag |-> "ModelInput", model |-> m],
        !.built = TRUE,
        !.weights = IF W.models[m].weights = None THEN None
                    ELSE [tag |-> "ref", model |-> m],
        !.is_train = TRUE]

\* a variant of the loop that assigns a built member's weights instead of
\* extending the list with them
RECURSIVE ListInitLoop_Assigns(_, _, _, _)
ListInitLoop_Assigns(W, layers, i, acc) ==
    IF i > Len(layers) THEN acc
    ELSE LET layer == layers[i]
             b == IF W.heap[layer].built = FALSE THEN FALSE ELSE acc.is_built
             w == IF W.heap[layer].built = TRUE /\ Weights(W, layer) # None
                  THEN Weights(W, layer)
                  ELSE acc.weights
         IN ListInitLoop_Assigns(W, layers, i + 1,
                                 [is_built |-> b, weights |-> w])

\* the loop of LayerList.__init__ from member i on: is_built and _weights
RECURSIVE ListInitLoop(_, _, _, _)
ListInitLoop(W, layers, i, acc) ==
    IF i > Len(layers) THEN acc
    ELSE LET layer == layers[i]
             b == IF W.heap[layer].built = FALSE THEN FALSE ELSE acc.is_built
             w == IF W.heap[layer].built = TRUE /\ Weights(W, layer) # None
                  THEN Extend(acc.weights, Weights(W, layer))
                  ELSE acc.weights
         IN ListInitLoop(W, layers, i + 1, [is_built |-> b, weights |-> w])

\* the LayerList object LayerList(layers, name) constructs, name resolved
LayerListInit(W, layers, name) ==
    LET r == ListInitLoop(W, layers, 1, [is_built |-> TRUE, weights |-> None])
    IN [LayerInit("LayerList", name) EXCEPT
           !.layers = layers,
           !.weights = r.weights,
           !.built = r.is_built]

\* a variant of the slice that takes the element at stop as well
PySlice_Inclusive(seq, start, stop) ==
    LET n == Len(seq)
        Clamp(x, dflt) ==
            IF x = None THEN dflt
            ELSE IF x.v < 0 THEN (IF x.v + n < 0 THEN 0 ELSE x.v + n)
            ELSE IF x.v > n THEN n ELSE x.v
        lo == Clamp(start, 0)
        hi == IF Clamp(stop, n) < n THEN Clamp(stop, n) + 1 ELSE n
    IN IF hi <= lo THEN <<>> ELSE [i \in 1..(hi - lo) |-> seq[lo + i]]

\* Python's seq[start:stop], start and stop None or IntV(k)
PySlice(seq, start, stop) ==
    LET n == Len(seq)
        Clamp(x, dflt) ==
            IF x = None THEN dflt
            ELSE IF x.v < 0 THEN (IF x.v + n < 0 THEN 0 ELSE x.v + n)
            ELSE IF x.v > n THEN n ELSE x.v
        lo == Clamp(start, 0)
        hi == Clamp(stop, n)
    IN IF hi <= lo THEN <<>> ELSE [i \in 1..(hi - lo) |-> seq[lo + i]]

\* Python's seq[idx] for an integer idx: the 1-based position, 0 when the
\* index is out of range (IndexError)
PyIndex(seq, idx) ==
    LET n == Len(seq)
        j == IF idx < 0 THEN idx + n ELSE idx
    IN IF j < 0 \/ j >= n THEN 0 ELSE j + 1

----------------------------------------------------------------------------
(* The state machine: the callers' operations on the objects *)

\* the per-operation counters start from zero in every operation
Fresh(h) ==
    [k \in DOMAIN h |-> [h[k] EXCEPT !.nbuild = 0, !.nforward = 0,
                                     !.fwd_unbuilt = FALSE]]

World == [heap |-> Fresh(heap), models |-> models]

Ids == 1..Len(heap)

\* the inputs the callers draw from
RawInputs == {[tag |-> "raw", shape |-> <<2>>]}
BareInts == {IntV(5)}
ExplicitNames == {Str("dense"), Str("m1_layer")}
NameArgs == {None} \cup ExplicitNames
IndexArgs == {IntV(k) : k \in -1..MaxMembersIndex}
SliceArgs == {None, IntV(-1), IntV(1), IntV(MaxMembersIndex)}

\* the lists of distinct layers of length lo..hi
LayerSeqs(S, lo, hi) ==
    {q \in UNION {[1..k -> S] : k \in lo..hi} :
        \A i, j \in DOMAIN q : i # j => q[i] # q[j]}

\* the lists of upstream layers a multi-input invocation of l is given
UpstreamLists(l) ==
    {q \in LayerSeqs(Ids \ {l}, 1, MaxUpstream) :
        \A i, j \in DOMAIN q : i < j => q[i] < q[j]}

\* the upstream layers an invocation takes its inputs from hold outputs,
\* and each layer of an upstream list holds one tensor
Live(arg) ==
    CASE arg.tag = "Layer" -> heap[arg.id].outputs # None
      [] arg.tag = "list" ->
            \A i \in DOMAIN arg.items :
                heap[arg.items[i]].outputs.tag = "Tensor"
      [] OTHER -> TRUE

\* what the callers invoke layer l with: raw data for an input layer; for
\* the others another layer, a list of other layers or a bare integer
CallArgs(l) ==
    IF heap[l].cls \in InputClasses THEN RawInputs
    ELSE {LayerRef(k) : k \in Ids \ {l}} \cup BareInts
            \cup {ListOf(q) : q \in UpstreamLists(l)}

Did(op, l, arg, err, result) ==
    [op |-> op, self |-> l, arg |-> arg, err |-> err, result |-> result]

Init ==
    /\ heap = <<>>
    /\ models = [m \in Models |->
                    [name |-> m,
                     weights |-> ListOf(<<[scope |-> m, var |-> "W",
                                           layer |-> 0, k |-> 1]>>),
                     is_train |-> TRUE,
                     live |-> TRUE]]
    /\ name_dict = <<>>
    /\ last = Did("init", 0, None, "ok", None)

\* cls(name=name) for a concrete layer class
NewLayer(cap, cls, name) ==
    /\ Len(heap) < cap
    /\ LET r == NameFor(name_dict, cls, name)
       IN /\ heap' = Append(Fresh(heap),
                            [LayerInit(cls, r.name) EXCEPT
                                !.auto = (name = None)])
          /\ name_dict' = r.dict
    /\ last' = Did("new", Len(heap) + 1, name, "ok", None)
    /\ UNCHANGED models

\* ModelLayer(model)
NewModelLayer(cap, m) ==
    /\ Len(heap) < cap
    /\ heap' = Append(Fresh(heap), ModelLayerInit(World, m))
    /\ last' = Did("new", Len(heap) + 1, Str(m), "ok", None)
    /\ UNCHANGED <<models, name_dict>>

\* LayerList(layers, name=name)
NewLayerList(cap, layers, name) ==
    /\ Len(heap) < cap
    /\ LET r == NameFor(name_dict, "LayerList", name)
       IN /\ heap' = Append(Fresh(heap),
                            [LayerListInit(World, layers, r.name) EXCEPT
                                !.auto = (name = None)])
          /\ name_dict' = r.dict
    /\ last' = Did("new", Len(heap) + 1, name, "ok", None)
    /\ UNCHANGED models

\* layer(arg)
Invoke(l, arg) ==
    /\ Live(arg)
    /\ LET r == Call(World, l, arg)
       IN /\ heap' = r.W.heap
          /\ models' = r.W.models
          /\ last' = Did("call", l, arg, r.err, None)
    /\ UNCHANGED name_dict

\* layer._release_memory()
Release(l) ==
    /\ LET W == ReleaseMemory(World, l)
       IN heap' = W.heap /\ models' = W.models
    /\ last' = Did("release", l, None, "ok", None)
    /\ UNCHANGED name_dict

\* layer._set_mode_for_layers(is_train)
SetMode(l, is_train) ==
    /\ LET W == SetModeForLayers(World, l, is_train)
       IN heap' = W.heap /\ models' = W.models
    /\ last' = Did("set_mode", l, [tag |-> "bool", v |-> is_train], "ok", None)
    /\ UNCHANGED name_dict

\* layer._inputs_shape and layer._outputs_shape
QueryShapes(l) ==
    /\ LET W == OutputsShape(InputsShape(World, l), l)
       IN /\ heap' = W.heap
          /\ last' = Did("shapes", l, None, "ok",
                         ListOf(<<W.heap[l].inputs_shape_mem,
                                  W.heap[l].outputs_shape_mem>>))
    /\ UNCHANGED <<models, name_dict>>

\* layerlist[idx] for an integer idx
GetItem(l, idx) ==
    /\ heap[l].cls = "LayerList"
    /\ LET j == PyIndex(heap[l].layers, idx.v)
       IN last' = IF j = 0 THEN Did("getitem", l, idx, "IndexError", None)
                  ELSE Did("getitem", l, idx, "ok", LayerRef(heap[l].layers[j]))
    /\ heap' = Fresh(heap)
    /\ UNCHANGED <<models, name_dict>>

\* layerlist[start:stop]
GetSlice(cap, l, start, stop) ==
    /\ heap[l].cls = "LayerList"
    /\ Len(heap) < cap
    /\ LET r == NameFor(name_dict, "LayerList", None)
           layers == PySlice(heap[l].layers, start, stop)
       IN /\ heap' = Append(Fresh(heap),
                            [LayerListInit(World, layers, r.name) EXCEPT
                                !.auto = TRUE])
          /\ name_dict' = r.dict
    /\ last' = Did("getslice", l, ListOf(<<start, stop>>), "ok",
                   LayerRef(Len(heap) + 1))
    /\ UNCHANGED models

\* len(layerlist)
LenOf(l) ==
    /\ heap[l].cls = "LayerList"
    /\ last' = Did("len", l, None, "ok", IntV(Len(heap[l].layers)))
    /\ heap' = Fresh(heap)
    /\ UNCHANGED <<models, name_dict>>

\* Construction with automatic names and invocation
Next ==
    \/ \E cls \in LayerClasses : NewLayer(MaxLayers, cls, None)
    \/ \E m \in Models : NewModelLayer(MaxLayers, m)
    \/ \E layers \in LayerSeqs(Ids, 0, MaxMembers) :
            NewLayerList(MaxLayers, layers, None)
    \/ \E l \in Ids : \E arg \in CallArgs(l) : Invoke(l, arg)

Spec == Init /\ [][Next]_vars

\* Invocation, release of the tensors and shape queries
NextRelease ==
    \/ \E cls \in LayerClasses : NewLayer(MaxLayersRelease, cls, None)
    \/ \E m \in Models : NewModelLayer(MaxLayersRelease, m)
    \/ \E layers \in LayerSeqs(Ids, 0, MaxMembers) :
            NewLayerList(MaxLayersRelease, layers, None)
    \/ \E l \in Ids : \E arg \in CallArgs(l) : Invoke(l, arg)
    \/ \E l \in Ids : Release(l)
    \/ \E l \in Ids : QueryShapes(l)

SpecRelease == Init /\ [][NextRelease]_vars

\* Training mode over nested composites
NextMode ==
    \/ \E cls \in LayerClasses : NewLayer(MaxLayersMode, cls, None)
    \/ \E m \in Models : NewModelLayer(MaxLayersMode, m)
    \/ \E layers \in LayerSeqs(Ids, 0, MaxMembers) :
            NewLayerList(MaxLayersMode, layers, None)
    \/ \E l \in Ids, is_train \in BOOLEAN : SetMode(l, is_train)

SpecMode == Init /\ [][NextMode]_vars

\* Naming: construction with and without explicit names, slicing
NextNames ==
    \/ \E cls \in LayerClasses, name \in NameArgs :
            NewLayer(MaxLayersNames, cls, name)
    \/ \E m \in Models : NewModelLayer(MaxLayersNames, m)
    \/ \E layers \in LayerSeqs(Ids, 0, 1), name \in NameArgs :
            NewLayerList(MaxLayersNames, layers, name)
    \/ \E l \in Ids : GetSlice(MaxLayersNames, l, None, None)

SpecNames == Init /\ [][NextNames]_vars

\* Indexing, slicing and length of a LayerList, over three Dense layers
\* constructed with automatic names
InitIndex ==
    /\ LET n1 == NameFor(<<>>, "Dense", None)
           n2 == NameFor(n1.dict, "Dense", None)
           n3 == NameFor(n2.dict, "Dense", None)
           New(r) == [LayerInit("Dense", r.name) EXCEPT !.auto = TRUE]
       IN /\ heap = <<New(n1), New(n2), New(n3)>>
          /\ name_dict = n3.dict
    /\ models = [m \in Models |->
                    [name |-> m,
                     weights |-> ListOf(<<[scope |-> m, var |-> "W",
                                           layer |-> 0, k |-> 1]>>),
                     is_train |-> TRUE,
                     live |-> TRUE]]
    /\ last = Did("new", 3, None, "ok", None)

NextIndex ==
    \/ \E layers \in LayerSeqs(Ids, 0, MaxMembersIndex) :
            NewLayerList(MaxLayersIndex, layers, None)
    \/ \E l \in Ids, idx \in IndexArgs : GetItem(l, idx)
    \/ \E l \in Ids, start \in SliceArgs, stop \in SliceArgs :
            GetSlice(MaxLayersIndex, l, start, stop)
    \/ \E l \in Ids : LenOf(l)

SpecIndex == InitIndex /\ [][NextIndex]_vars

\* The whole life of a composite, after
\*   d = Dense(); ml = ModelLayer(m1); ll = LayerList([d, ml])
InitLife ==
    /\ models = [m \in Models |->
                    [name |-> m,
                     weights |-> ListOf(<<[scope |-> m, var |-> "W",
                                           layer |-> 0, k |-> 1]>>),
                     is_train |-> TRUE,
                     live |-> TRUE]]
    /\ LET n1 == NameFor(<<>>, "Dense", None)
           n3 == NameFor(n1.dict, "LayerList", None)
           d == [LayerInit("Dense", n1.name) EXCEPT !.auto = TRUE]
           ml == ModelLayerInit([heap |-> <<d>>, models |-> models], "m1")
           ll == [LayerListInit([heap |-> <<d, ml>>, models |-> models],
                                <<1, 2>>, n3.name) EXCEPT !.auto = TRUE]
       IN /\ heap = <<d, ml, ll>>
          /\ name_dict = n3.dict
    /\ last = Did("new", 3, None, "ok", None)

\* invocation, release and mode setting
NextLife ==
    \/ \E l \in Ids : \E arg \in CallArgs(l) : Invoke(l, arg)
    \/ \E l \in Ids : Release(l)
    \/ \E l \in Ids, is_train \in BOOLEAN :
            heap[l].cls = "LayerList" /\ SetMode(l, is_train)

SpecLife == InitLife /\ [][NextLife]_vars

\* Every operation, over a small population
NextOps ==
    \/ \E cls \in LayerClasses : NewLayer(MaxLayersOps, cls, None)
    \/ \E m \in Models : NewModelLayer(MaxLayersOps, m)
    \/ \E layers \in LayerSeqs(Ids, 0, MaxMembers) :
            NewLayerList(MaxLayersOps, layers, None)
    \/ \E l \in Ids : \E arg \in CallArgs(l) : Invoke(l, arg)
    \/ \E l \in Ids : Release(l)
    \/ \E l \in Ids, is_train \in BOOLEAN : SetMode(l, is_train)
    \/ \E l \in Ids : GetSlice(MaxLayersOps, l, None, IntV(1))
    \/ \E l \in Ids : GetItem(l, IntV(0))

SpecOps == Init /\ [][NextOps]_vars

\* A nested composite, after
\*   d = Dense(); ml = ModelLayer(m1); inner = LayerList([d, ml]);
\*   outer = LayerList([inner])
InitNested ==
    /\ models = [m \in Models |->
                    [name |-> m,
                     weights |-> ListOf(<<[scope |-> m, var |-> "W",
                                           layer |-> 0, k |-> 1]>>),
                     is_train |-> TRUE,
                     live |-> TRUE]]
    /\ LET n1 == NameFor(<<>>, "Dense", None)
           n3 == NameFor(n1.dict, "LayerList", None)
           n4 == NameFor(n3.dict, "LayerList", None)
           d == [LayerInit("Dense", n1.name) EXCEPT !.auto = TRUE]
           ml == ModelLayerInit([heap |-> <<d>>, models |-> models], "m1")
           inner == [LayerListInit([heap |-> <<d, ml>>, models |-> models],
                                   <<1, 2>>, n3.name) EXCEPT !.auto = TRUE]
           outer == [LayerListInit([heap |-> <<d, ml, inner>>,
                                    models |-> models],
                                   <<3>>, n4.name) EXCEPT !.auto = TRUE]
       IN /\ heap = <<d, ml, inner, outer>>
          /\ name_dict = n4.dict
    /\ last = Did("new", 4, None, "ok", None)

\* invocation of the lists, release of any of the objects
NextNested ==
    \/ \E l \in Ids : \E arg \in CallArgs(l) :
            heap[l].cls = "LayerList" /\ Invoke(l, arg)
    \/ \E l \in Ids : Release(l)

SpecNested == InitNested /\ [][NextNested]_vars

\* The name counter next to every operation that could touch it
NextCounter ==
    \/ \E cls \in LayerClasses, name \in NameArgs :
            NewLayer(MaxLayersCounter, cls, name)
    \/ \E m \in Models : NewModelLayer(MaxLayersCounter, m)
    \/ \E layers \in LayerSeqs(Ids, 0, 1), name \in NameArgs :
            NewLayerList(MaxLayersCounter, layers, name)
    \/ \E l \in Ids : \E arg \in CallArgs(l) : Invoke(l, arg)
    \/ \E l \in Ids : Release(l)
    \/ \E l \in Ids : GetItem(l, IntV(0))
    \/ \E l \in Ids : GetSlice(MaxLayersCounter, l, None, None)

SpecCounter == Init /\ [][NextCounter]_vars

\* the wrapped model appends a parameter to its own weight list
ModelAppend(m) ==
    /\ Len(models[m].weights.items) < MaxModelWeights
    /\ models' = [models EXCEPT ![m].weights =
                      ListOf(Append(@.items,
                                    [scope |-> m, var |-> "W", layer |-> 0,
                                     k |-> Len(@.items) + 1]))]
    /\ heap' = Fresh(heap)
    /\ last' = Did("model_append", 0, Str(m), "ok", None)
    /\ UNCHANGED name_dict

\* A wrapped model that keeps growing next to the layers that wrap it
NextModel ==
    \/ \E cls \in LayerClasses : NewLayer(MaxLayersModel, cls, None)
    \/ \E m \in Models : NewModelLayer(MaxLayersModel, m)
    \/ \E layers \in LayerSeqs(Ids, 0, MaxMembers) :
            NewLayerList(MaxLayersModel, layers, None)
    \/ \E l \in Ids : \E arg \in CallArgs(l) : Invoke(l, arg)
    \/ \E l \in Ids : Release(l)
    \/ \E m \in Models : ModelAppend(m)

SpecModel == Init /\ [][NextModel]_vars

----------------------------------------------------------------------------
(* Properties *)

ItemsOf(w) == IF w = None THEN <<>> ELSE w.items

\* the items of layer l's weights in heap h with models ms
WeightItems(h, ms, l) == ItemsOf(Weights([heap |-> h, models |-> ms], l))

MembersBuilt(h, l) ==
    \A i \in DOMAIN h[l].layers : h[h[l].layers[i]].built

\* the members' weights one after the other, in member order
RECURSIVE ConcatWeights(_, _, _, _)
ConcatWeights(h, ms, layers, i) ==
    IF i > Len(layers) THEN <<>>
    ELSE WeightItems(h, ms, layers[i]) \o ConcatWeights(h, ms, layers, i + 1)

\* the parameters layer l owns exist
RECURSIVE ParamsExist(_, _, _)
ParamsExist(h, ms, l) ==
    CASE h[l].cls = "LayerList" ->
            \A i \in DOMAIN h[l].layers : ParamsExist(h, ms, h[l].layers[i])
      [] h[l].cls = "ModelLayer" -> TRUE
      [] OTHER -> Len(WeightItems(h, ms, l)) >= NParams(h[l].cls)

\* C1: in every invocation, each layer's build is executed at most once,
\* and not at all on a layer that has been invoked before, whose weights
\* keep their length.
C1_BuildOnlyOnFirstCall ==
    [][last'.op = "call" =>
        \A l \in Ids :
            /\ heap'[l].nbuild <= 1
            /\ heap[l].called =>
                  /\ heap'[l].nbuild = 0
                  /\ Len(WeightItems(heap', models', l))
                        = Len(WeightItems(heap, models, l))]_vars

\* C2: a LayerList constructed with an unbuilt member stays unbuilt until
\* its own build runs, and when that build has run every member is built
\* and the list's weights are the members' weights in member order.
C2_MixedListBuild ==
    [][\A l \in Ids :
        (heap[l].cls = "LayerList" /\ ~heap[l].built /\ ~heap[l].has_built) =>
            /\ heap'[l].built => heap'[l].nbuild > 0
            /\ (heap'[l].nbuild > 0 /\ last'.err = "ok") =>
                  /\ MembersBuilt(heap', l)
                  /\ WeightItems(heap', models', l)
                        = ConcatWeights(heap', models', heap'[l].layers, 1)]_vars

\* the LayerList the last operation constructed, 0 when it constructed none
NewList ==
    IF last.op \in {"new", "getslice"} /\ heap[Len(heap)].cls = "LayerList"
    THEN Len(heap) ELSE 0

\* C3: a LayerList constructed from members that are all built is built
\* right after construction, and its weights are the members' weights in
\* member order.
C3_AllBuiltList ==
    (NewList # 0 /\ MembersBuilt(heap, NewList)) =>
        /\ heap[NewList].built
        /\ WeightItems(heap, models, NewList)
              = ConcatWeights(heap, models, heap[NewList].layers, 1)

C3_Witness ==
    /\ NewList # 0
    /\ MembersBuilt(heap, NewList)
    /\ Len(heap[NewList].layers) = 2
    /\ \A i \in 1..2 :
          WeightItems(heap, models, heap[NewList].layers[i]) # <<>>
    /\ heap[heap[NewList].layers[1]].cls = "Dense"

\* C4: a built layer's parameters exist.
C4_BuiltImpliesParams ==
    \A l \in Ids : heap[l].built => ParamsExist(heap, models, l)

\* C9: invoking a non-input layer with an argument that is neither a layer
\* nor a list fails with the invalid-input error and leaves built, inputs,
\* outputs, input_layer and weights as they were.
C9_InvalidInput ==
    [][(/\ last'.op = "call"
        /\ heap[last'.self].cls \notin InputClasses
        /\ last'.arg.tag \notin {"Layer", "list"}) =>
            LET l == last'.self
            IN /\ last'.err = "AssertionError"
               /\ heap'[l].built = heap[l].built
               /\ heap'[l].inputs = heap[l].inputs
               /\ heap'[l].outputs = heap[l].outputs
               /\ heap'[l].input_layer = heap[l].input_layer
               /\ heap'[l].weights = heap[l].weights]_vars

C9_Witness ==
    /\ last.op = "call"
    /\ last.err = "AssertionError"
    /\ last.arg.tag = "int"
    /\ ~heap[last.self].built

\* the automatically named layers of l's prefix created before l
AutoBefore(l) ==
    Cardinality({j \in 1..(l - 1) :
                    heap[j].auto /\ Lower(heap[j].cls) = Lower(heap[l].cls)})

\* C5: of the layers constructed without a name, the first of a class is
\* named by the lowercased class name c and the k-th after it c_k, each
\* prefix counting on its own.
C5_AutoNames ==
    \A l \in Ids :
        heap[l].auto =>
            heap[l].name =
                IF AutoBefore(l) = 0 THEN Lower(heap[l].cls)
                ELSE Lower(heap[l].cls) \o "_" \o ToString(AutoBefore(l))

C5_Witness ==
    \E a, b, c \in Ids :
        /\ heap[a].auto /\ heap[a].name = "dense_1"
        /\ heap[b].auto /\ heap[b].name = "layerlist" /\ b > a
        /\ ~heap[c].auto /\ c < a

\* C6: any two distinct layers have different names.
C6_UniqueNames ==
    \A i, j \in Ids : i # j => heap[i].name # heap[j].name

\* the members of l, of its member lists, and so on
RECURSIVE Descendants(_, _)
Descendants(h, l) ==
    LET ms == {h[l].layers[i] : i \in DOMAIN h[l].layers}
    IN ms \cup UNION {Descendants(h, m) : m \in ms}

\* C7: after _set_mode_for_layers(is_train) on a LayerList, the list, every
\* member at any depth and the model of every ModelLayer among them have
\* is_train equal to the argument.
C7_ModePropagates ==
    (last.op = "set_mode" /\ heap[last.self].cls = "LayerList") =>
        \A m \in {last.self} \cup Descendants(heap, last.self) :
            /\ heap[m].is_train = last.arg.v
            /\ heap[m].cls = "ModelLayer" =>
                  models[heap[m].model].is_train = last.arg.v

C7_Witness ==
    /\ last.op = "set_mode"
    /\ last.arg.v = FALSE
    /\ heap[last.self].cls = "LayerList"
    /\ \E i, j \in DOMAIN heap[last.self].layers :
          LET inner == heap[last.self].layers[i]
              plain == heap[last.self].layers[j]
          IN /\ heap[inner].cls = "LayerList"
             /\ heap[plain].cls = "Dense"
             /\ \E k \in DOMAIN heap[inner].layers :
                   heap[heap[inner].layers[k]].cls = "ModelLayer"

\* the values the shape properties of l return in heap h
InShape(h, ms, l) ==
    InputsShape([heap |-> h, models |-> ms], l).heap[l].inputs_shape_mem
OutShape(h, ms, l) ==
    OutputsShape([heap |-> h, models |-> ms], l).heap[l].outputs_shape_mem

\* C8: _release_memory on an invoked layer leaves inputs and outputs None
\* and every shape query returning what it returned before; a released
\* layer invoked again on upstream layers gets outputs without a build.
C8_ReleaseKeepsShapes ==
    [][/\ (last'.op = "release" /\ heap[last'.self].called) =>
            /\ heap'[last'.self].inputs = None
            /\ heap'[last'.self].outputs = None
            /\ \A l \in Ids :
                  /\ InShape(heap', models', l) = InShape(heap, models, l)
                  /\ OutShape(heap', models', l) = OutShape(heap, models, l)
       /\ (/\ last'.op = "call"
           /\ last'.arg.tag \in {"Layer", "list"}
           /\ heap[last'.self].called
           /\ heap[last'.self].built
           /\ heap[last'.self].outputs = None) =>
            /\ last'.err = "ok"
            /\ heap'[last'.self].outputs # None
            /\ heap'[last'.self].nbuild = 0]_vars

C8_Witness ==
    /\ last.op = "release"
    /\ heap[last.self].called
    /\ heap[last.self].cls = "Dense"
    /\ heap[last.self].inputs_shape_mem = [tag |-> "shape", dims |-> <<2>>]
    /\ heap[last.self].outputs_shape_mem = [tag |-> "shape", dims |-> <<1>>]

\* start or stop of a slice over n elements as Python reads it
SliceBound(x, dflt, n) ==
    IF x = None THEN dflt
    ELSE IF x.v < 0 THEN (IF n + x.v < 0 THEN 0 ELSE n + x.v)
    ELSE IF x.v > n THEN n ELSE x.v

\* C10: an integer index returns the member at that position; a slice
\* returns a new LayerList holding the members of the sub-sequence in
\* order; len returns the number of direct members.
C10_Indexing ==
    /\ (last.op = "getitem" /\ last.err = "ok") =>
          LET ls == heap[last.self].layers
              k == last.arg.v
          IN last.result =
                LayerRef(ls[IF k >= 0 THEN k + 1 ELSE Len(ls) + k + 1])
    /\ last.op = "getslice" =>
          LET ls == heap[last.self].layers
              new == last.result.id
              lo == SliceBound(last.arg.items[1], 0, Len(ls))
              hi == SliceBound(last.arg.items[2], Len(ls), Len(ls))
          IN /\ new = Len(heap)
             /\ new # last.self
             /\ heap[new].cls = "LayerList"
             /\ heap[new].layers = SubSeq(ls, lo + 1, hi)
    /\ last.op = "len" =>
          last.result = IntV(Len(heap[last.self].layers))

C10_Witness ==
    /\ last.op = "getslice"
    /\ last.arg = ListOf(<<IntV(1), IntV(3)>>)
    /\ Len(heap[last.self].layers) = 3
    /\ heap[last.result.id].layers =
          <<heap[last.self].layers[2], heap[last.self].layers[3]>>

\* C11: built never goes from true to false in any step, and a new object
\* starts unbuilt, except a ModelLayer and a LayerList of built members.
C11_BuiltMonotone ==
    [][/\ \A l \in Ids : heap[l].built => heap'[l].built
       /\ \A l \in (1..Len(heap')) \ Ids :
             heap'[l].built =
                (\/ heap'[l].cls = "ModelLayer"
                 \/ heap'[l].cls = "LayerList" /\ MembersBuilt(heap', l))]_vars

C11_Witness ==
    /\ last.op = "release"
    /\ heap[last.self].cls = "Dense"
    /\ heap[last.self].built
    /\ heap[last.self].has_built
    /\ heap[last.self].outputs = None

IsPrefix(a, b) == Len(a) <= Len(b) /\ SubSeq(b, 1, Len(a)) = a

\* C12: in every step, each layer's weights stay a list once they are one
\* and their previous items are a prefix of the new items.
C12_WeightsAppendOnly ==
    [][\A l \in Ids :
          /\ heap[l].weights # None => heap'[l].weights # None
          /\ heap'[l].weights.tag \in {"None", "list", "ref"}
          /\ IsPrefix(WeightItems(heap, models, l),
                      WeightItems(heap', models', l))]_vars

C12_Witness ==
    /\ last.op = "call"
    /\ heap[last.self].cls = "LayerList"
    /\ heap[last.self].nbuild = 1
    /\ Len(WeightItems(heap, models, last.self)) = 2
    /\ \E l \in Ids : heap[l].cls = "Dense" /\ heap[l].nbuild = 1
                         /\ Len(WeightItems(heap, models, l)) = 1

\* C13: a ModelLayer is built from the state in which it first exists, it
\* is constructed with the outputs of the wrapped model's forward, and its
\* weights have the contents of the model's weights in every state.
C13_ModelLayerShares ==
    \A l \in Ids :
        heap[l].cls = "ModelLayer" =>
            /\ heap[l].built
            /\ WeightItems(heap, models, l) =
                   ItemsOf(models[heap[l].model].weights)
            /\ (last.op = "new" /\ last.self = l) =>
                   /\ heap[l].inputs = ModelInputOutputs
                   /\ heap[l].outputs = ModelForward(heap[l].inputs)

C13_Witness ==
    /\ last.op = "model_append"
    /\ \E l \in Ids :
          /\ heap[l].cls = "ModelLayer"
          /\ heap[l].called
          /\ Len(WeightItems(heap, models, l)) = MaxModelWeights

\* C14: in the state a _release_memory leaves, a second _release_memory on
\* the same layer changes nothing, cached shapes included, and neither
\* call fails.
C14_ReleaseIdempotent ==
    last.op = "release" =>
        /\ last.err = "ok"
        /\ ReleaseMemory([heap |-> heap, models |-> models], last.self) =
               [heap |-> heap, models |-> models]

C14_Witness ==
    /\ last.op = "release"
    /\ heap[last.self].cls = "LayerList"
    /\ heap[last.self].called
    /\ heap[last.self].inputs_shape_mem # None
    /\ \E i \in DOMAIN heap[last.self].layers :
          LET m == heap[last.self].layers[i]
          IN heap[m].cls = "Dense" /\ heap[m].outputs_shape_mem # None
    /\ \E l \in Ids : ~heap[l].called /\ heap[l].cls = "ModelLayer"

\* C15: in every state, every member of a built LayerList is built.
C15_BuiltListMembersBuilt ==
    \A l \in Ids :
        (heap[l].cls = "LayerList" /\ heap[l].built) => MembersBuilt(heap, l)

\* C16: after _release_memory on a LayerList, the list and every member at
\* any depth hold no inputs and no outputs, and the model of every
\* ModelLayer among them has been released.
C16_ListReleaseRecursive ==
    (last.op = "release" /\ heap[last.self].cls = "LayerList") =>
        \A m \in {last.self} \cup Descendants(heap, last.self) :
            /\ heap[m].inputs = None
            /\ heap[m].outputs = None
            /\ heap[m].cls = "ModelLayer" => ~models[heap[m].model].live

C16_Witness ==
    /\ last.op = "release"
    /\ heap[last.self].cls = "LayerList"
    /\ heap[last.self].outputs_shape_mem # None
    /\ \E i \in DOMAIN heap[last.self].layers :
          LET inner == heap[last.self].layers[i]
          IN /\ heap[inner].cls = "LayerList"
             /\ \E j, k \in DOMAIN heap[inner].layers :
                   /\ heap[heap[inner].layers[j]].cls = "ModelLayer"
                   /\ heap[heap[inner].layers[k]].cls = "Dense"
                   /\ heap[heap[inner].layers[k]].outputs_shape_mem # None

\* C17: a successful first invocation of an unbuilt LayerList on one
\* upstream layer U executes the list's build once; afterwards the first
\* member has input_layer U and U's outputs as inputs, every later member
\* has the member before it as input_layer and that member's outputs as
\* inputs, and every member that was unbuilt has been built once, before
\* any forward ran on it.
C17_FirstListCallThreads ==
    [][(/\ last'.op = "call"
        /\ last'.err = "ok"
        /\ last'.arg.tag = "Layer"
        /\ heap[last'.self].cls = "LayerList"
        /\ ~heap[last'.self].built
        /\ ~heap[last'.self].called) =>
          LET l == last'.self
              U == last'.arg.id
              ms == heap[l].layers
          IN /\ heap'[l].nbuild = 1
             /\ \A i \in DOMAIN ms :
                   LET prev == IF i = 1 THEN U ELSE ms[i - 1]
                   IN /\ heap'[ms[i]].input_layer = LayerRef(prev)
                      /\ heap'[ms[i]].inputs = heap'[prev].outputs
                      /\ ~heap[ms[i]].built =>
                            /\ heap'[ms[i]].nbuild = 1
                            /\ heap'[ms[i]].nforward >= 1
                            /\ ~heap'[ms[i]].fwd_unbuilt]_vars

C17_Witness ==
    /\ last.op = "call"
    /\ last.err = "ok"
    /\ last.arg.tag = "Layer"
    /\ heap[last.self].cls = "LayerList"
    /\ heap[last.self].nbuild = 1
    /\ Len(heap[last.self].layers) = 2
    /\ LET a == heap[last.self].layers[1]
           b == heap[last.self].layers[2]
       IN /\ heap[a].nbuild = 1
          /\ heap[a].input_layer = last.arg
          /\ heap[b].input_layer = LayerRef(a)
          /\ heap[b].inputs = heap[a].outputs

\* what the members from position i on make of z, each fed the result of
\* the one before
RECURSIVE ChainOut(_, _, _, _)
ChainOut(h, ms, i, z) ==
    IF i > Len(ms) THEN z
    ELSE LET m == h[ms[i]]
             out == CASE m.cls = "LayerList" -> ChainOut(h, m.layers, 1, z)
                      [] m.cls = "ModelLayer" -> ModelForward(z)
                      [] OTHER -> ClassForward(m.cls, z)
         IN ChainOut(h, ms, i + 1, out)

\* C18: an invocation of a built LayerList on upstream layers succeeds
\* with one forward of the list and of each member, in member order, and
\* no build; the members' built, weights, inputs, outputs and input_layer
\* and the list's weights stay as they were.
C18_BuiltListOnlyForwards ==
    [][(/\ last'.op = "call"
        /\ last'.arg.tag \in {"Layer", "list"}
        /\ heap[last'.self].cls = "LayerList"
        /\ heap[last'.self].built) =>
          LET l == last'.self
          IN /\ last'.err = "ok"
             /\ heap'[l].nbuild = 0
             /\ heap'[l].nforward = 1
             /\ heap'[l].outputs =
                   ChainOut(heap, heap[l].layers, 1, heap'[l].inputs)
             /\ heap'[l].weights = heap[l].weights
             /\ \A m \in Descendants(heap, l) :
                   /\ heap'[m].nbuild = 0
                   /\ heap'[m].nforward = 1
                   /\ heap'[m].built = heap[m].built
                   /\ heap'[m].weights = heap[m].weights
                   /\ WeightItems(heap', models', m) =
                          WeightItems(heap, models, m)
                   /\ heap'[m].inputs = heap[m].inputs
                   /\ heap'[m].outputs = heap[m].outputs
                   /\ heap'[m].input_layer = heap[m].input_layer]_vars

C18_Witness ==
    /\ last.op = "call"
    /\ last.err = "ok"
    /\ last.arg.tag = "Layer"
    /\ heap[last.self].cls = "LayerList"
    /\ heap[last.self].has_built
    /\ heap[last.self].nbuild = 0
    /\ heap[last.self].nforward = 1
    /\ Len(heap[last.self].layers) = 2
    /\ \A i \in DOMAIN heap[last.self].layers :
          LET m == heap[heap[last.self].layers[i]]
          IN m.nforward = 1 /\ m.nbuild = 0 /\ m.built

\* C19: a successful invocation of a LayerList on one upstream layer
\* executes the forward of each direct member twice when the list was
\* unbuilt, and once when it was built.
C19_MemberForwardCount ==
    [][(/\ last'.op = "call"
        /\ last'.err = "ok"
        /\ last'.arg.tag = "Layer"
        /\ heap[last'.self].cls = "LayerList") =>
          \A i \in DOMAIN heap[last'.self].layers :
              heap'[heap[last'.self].layers[i]].nforward =
                  IF heap[last'.self].built THEN 1 ELSE 2]_vars

C19_Witness ==
    /\ last.op = "call"
    /\ last.err = "ok"
    /\ last.arg.tag = "Layer"
    /\ heap[last.self].cls = "LayerList"
    /\ heap[last.self].nbuild = 1
    /\ \E i \in DOMAIN heap[last.self].layers :
          LET inner == heap[heap[last.self].layers[i]]
          IN /\ inner.cls = "LayerList"
             /\ inner.nforward = 2
             /\ inner.nbuild = 1
             /\ \E k \in DOMAIN inner.layers :
                   heap[inner.layers[k]].nforward = 3

\* counter e is counter d with the entry of prefix p created at 0 or
\* raised by one, and nothing else changed
CounterStep(d, e, p) ==
    e = [q \in DOMAIN d \cup {p} |->
            IF q = p THEN (IF p \in DOMAIN d THEN d[p] + 1 ELSE 0) ELSE d[q]]

\* C20: a construction without a name moves the entry of the class's
\* lowercased prefix by one step, a slice moves the layerlist entry by one
\* step, and every other operation leaves the name counter as it was.
C20_CounterFrame ==
    [][IF last'.op = "new" /\ last'.arg = None
       THEN CounterStep(name_dict, name_dict',
                        Lower(heap'[last'.self].cls))
       ELSE IF last'.op = "getslice"
       THEN CounterStep(name_dict, name_dict', "layerlist")
       ELSE name_dict' = name_dict]_vars

C20_Witness ==
    /\ last.op = "getslice"
    /\ heap[last.result.id].name = "layerlist_1"
    /\ name_dict = [p \in {"layerlist"} |-> 1]

====
